---- MODULE Spec2Model ----
(***************************************************************************)
(* Model of vizbeauty/common.py: print_statistic, beautybar,               *)
(* pearson_correlation, reg_scatter and visualize_hyperparameter, together *)
(* with the ambient state they act on: the console and the pyplot          *)
(* registry of drawing surfaces with its "current" surface.                *)
(*                                                                         *)
(* Numbers are exact rationals [n |-> numerator, d |-> denominator] in     *)
(* lowest terms with d > 0; NaN (a missing entry, or an undefined          *)
(* aggregate) is [n |-> 0, d |-> 0].  A value printed through round(_, 2)  *)
(* is the rational with denominator dividing 100 that round() yields.      *)
(***************************************************************************)
EXTENDS Integers, Sequences, FiniteSets, TLC

VARIABLES
    figs,     \* pyplot's surfaces, in creation order: each the sequence of commands drawn on it
    cur,      \* index of the current surface (0: none exists)
    log,      \* the plotting steps of the last call, in order: [fig, cmd]
    console,  \* the lines printed so far
    raised,   \* the error the last call ended with ("none": it returned)
    call,     \* the last call: its name and arguments
    nCalls    \* number of calls made

vars == <<figs, cur, log, console, raised, call, nCalls>>

(***************************************************************************)
(* Bounds of the model.                                                    *)
(***************************************************************************)
MaxLen == 5        \* longest series handed to print_statistic
MaxRows == 2       \* most rows of a frame handed to beautybar / reg_scatter
MaxPoints == 2     \* longest param_values / scores handed to visualize_hyperparameter
MaxFigs == 2       \* most surfaces open before the first call
MaxCalls == 2      \* most calls in a run of the repeated operations
MaxSeries == 3     \* longest series handed to pearson_correlation

Values == {0, 1, 2}            \* the numeric entries of a series or column
Categories == {"a", "b"}       \* the values of a categorical column
Names == {"u", "v"}            \* series names, titles
NoAx == 0                      \* ax=None

(***************************************************************************)
(* Rational arithmetic.                                                    *)
(***************************************************************************)
NaN == [n |-> 0, d |-> 0]

IsNaN(q) == q.d = 0

Abs(i) == IF i < 0 THEN -i ELSE i

RECURSIVE GCD(_, _)
GCD(a, b) == IF b = 0 THEN a ELSE GCD(b, a % b)

\* num/den in lowest terms, den > 0
Frac(num, den) ==
    LET g == GCD(Abs(num), Abs(den))
        s == IF den < 0 THEN -1 ELSE 1
    IN  [n |-> s * (num \div g), d |-> s * (den \div g)]

Int2Q(i) == [n |-> i, d |-> 1]

QAdd(p, q) == IF IsNaN(p) \/ IsNaN(q) THEN NaN ELSE Frac(p.n * q.d + q.n * p.d, p.d * q.d)

\* p < q as Python compares floats: any comparison with NaN is False
QLess(p, q) == IF IsNaN(p) \/ IsNaN(q) THEN FALSE ELSE p.n * q.d < q.n * p.d

\* a/b < c/d for a, c >= 0 and b, d > 0, by continued fractions (no products)
RECURSIVE FracLT(_, _, _, _)
FracLT(a, b, c, d) ==
    LET qa == a \div b
        qc == c \div d
        ra == a % b
        rc == c % d
    IN  IF qa # qc THEN qa < qc
        ELSE IF rc = 0 THEN FALSE
        ELSE IF ra = 0 THEN TRUE
        ELSE FracLT(d, rc, b, ra)

\* round(r / den) for 0 <= r, den > 0, ties to even
RoundHalfEven(r, den) ==
    LET q == r \div den
        m == 2 * (r % den)
    IN  IF m < den THEN q
        ELSE IF m > den THEN q + 1
        ELSE IF q % 2 = 0 THEN q ELSE q + 1

\* round(q, 2): the nearest multiple of 1/100, ties to even; round(nan, 2) is nan
Round2(q) ==
    IF IsNaN(q) THEN NaN
    ELSE LET ip == q.n \div q.d
             r == q.n % q.d
         IN  Frac(100 * ip + RoundHalfEven(100 * r, q.d), 100)

\* least h in lo..hi with 40000 * num < (2h+1)^2 * den, i.e. round(100 * sqrt(num/den))
RECURSIVE SqrtSearch(_, _, _, _)
SqrtSearch(num, den, lo, hi) ==
    IF lo >= hi THEN lo
    ELSE LET mid == (lo + hi) \div 2
         IN  IF FracLT(num, den, (2 * mid + 1) * (2 * mid + 1), 40000)
             THEN SqrtSearch(num, den, lo, mid)
             ELSE SqrtSearch(num, den, mid + 1, hi)

\* round(sign * sqrt(num/den), 2) for num >= 0, den > 0
RoundSqrt2(sign, num, den) == Frac(sign * SqrtSearch(num, den, 0, 2048), 100)

(***************************************************************************)
(* Series: sequences of entries, an entry a rational with d = 1, or NaN.   *)
(***************************************************************************)
Entries == {Int2Q(v) : v \in Values} \cup {NaN}

SeqsUpTo(S, k) == UNION {[1..m -> S] : m \in 0..k}

RECURSIVE DropNa(_)
DropNa(s) ==
    IF s = <<>> THEN <<>>
    ELSE IF IsNaN(Head(s)) THEN DropNa(Tail(s))
    ELSE <<Head(s).n>> \o DropNa(Tail(s))

RECURSIVE Sum(_)
Sum(xs) == IF xs = <<>> THEN 0 ELSE Head(xs) + Sum(Tail(xs))

RECURSIVE Insert(_, _)
Insert(x, xs) ==
    IF xs = <<>> THEN <<x>>
    ELSE IF x <= Head(xs) THEN <<x>> \o xs
    ELSE <<Head(xs)>> \o Insert(x, Tail(xs))

RECURSIVE Sort(_)
Sort(xs) == IF xs = <<>> THEN <<>> ELSE Insert(Head(xs), Sort(Tail(xs)))

\* sum over i of (n * xs[i] - Sum(xs))^k: n^k times the k-th central sum
RECURSIVE PowSum(_, _, _, _)
PowSum(xs, n, s, k) ==
    IF xs = <<>> THEN 0
    ELSE LET e == n * Head(xs) - s
         IN  (IF k = 2 THEN e * e ELSE IF k = 3 THEN e * e * e ELSE e * e * e * e)
             + PowSum(Tail(xs), n, s, k)

Moment(xs, k) == PowSum(xs, Len(xs), Sum(xs), k)

\* the aggregates on a sequence of numbers with no missing entry
MeanOf(xs) == IF xs = <<>> THEN NaN ELSE Frac(Sum(xs), Len(xs))

MedianOf(xs) ==
    LET a == Sort(xs)
        n == Len(xs)
    IN  IF n = 0 THEN NaN
        ELSE IF n % 2 = 1 THEN Int2Q(a[(n + 1) \div 2])
        ELSE Frac(a[n \div 2] + a[n \div 2 + 1], 2)

MinOf(xs) == IF xs = <<>> THEN NaN ELSE Int2Q(Sort(xs)[1])

MaxOf(xs) == IF xs = <<>> THEN NaN ELSE Int2Q(Sort(xs)[Len(xs)])

\* the q-th percentile, linear interpolation between closest ranks (xs not empty)
PercentileOf(xs, q) ==
    LET a == Sort(xs)
        n == Len(xs)
        k == ((n - 1) * q) \div 100
        r == ((n - 1) * q) % 100
    IN  IF r = 0 THEN Int2Q(a[k + 1])
        ELSE Frac((100 - r) * a[k + 1] + r * a[k + 2], 100)

\* round(std, 2), sample standard deviation (ddof = 1)
RoundedStdOf(xs) ==
    LET n == Len(xs)
    IN  IF n < 2 THEN NaN ELSE RoundSqrt2(1, Moment(xs, 2), n * n * (n - 1))

\* round(skew, 2), the adjusted Fisher-Pearson coefficient
RoundedSkewOf(xs) ==
    LET n == Len(xs)
        m2 == Moment(xs, 2)
        m3 == Moment(xs, 3)
    IN  IF n < 3 THEN NaN
        ELSE IF m2 = 0 THEN Int2Q(0)
        ELSE RoundSqrt2(IF m3 < 0 THEN -1 ELSE 1,
                        n * n * (n - 1) * m3 * m3, (n - 2) * (n - 2) * m2 * m2 * m2)

\* excess kurtosis, bias-corrected (exact: where it falls on a tie of round(_, 2),
\* the floating-point result may fall on either side)
KurtosisOf(xs) ==
    LET n == Len(xs)
        m2 == Moment(xs, 2)
        m4 == Moment(xs, 4)
    IN  IF n < 4 THEN NaN
        ELSE IF m2 = 0 THEN Int2Q(0)
        ELSE Frac(n * (n + 1) * (n - 1) * m4 - 3 * (n - 1) * (n - 1) * m2 * m2,
                  (n - 2) * (n - 3) * m2 * m2)

\* pandas reductions: skipna=True
Mean(variable) == MeanOf(DropNa(variable))
Median(variable) == MedianOf(DropNa(variable))
RoundedStd(variable) == RoundedStdOf(DropNa(variable))
Min(variable) == MinOf(DropNa(variable))
Max(variable) == MaxOf(DropNa(variable))
RoundedSkew(variable) == RoundedSkewOf(DropNa(variable))
Kurtosis(variable) == KurtosisOf(DropNa(variable))
CountMissing(variable) == Len(variable) - Len(DropNa(variable))

\* numpy.percentile on the series as it is: nan as soon as one entry is nan
NpPercentile(variable, q) ==
    IF Len(DropNa(variable)) < Len(variable) THEN NaN
    ELSE PercentileOf(DropNa(variable), q)

(***************************************************************************)
(* The console.                                                            *)
(***************************************************************************)
BannerWidth == 54

Line(label, a, b, val) == [label |-> label, a |-> a, b |-> b, val |-> val]

TitleLine(title) == Line("Statistics for", title, "", Int2Q(0))
BannerLine == Line("+", "", "", Int2Q(BannerWidth))
BlankLine == Line("", "", "", Int2Q(0))

\* faulty variant: the maximum printed before the minimum
StatHead_MaxFirst(title, variable) ==
    << TitleLine(title),
       BannerLine,
       Line("Mean", "", "", Round2(Mean(variable))),
       Line("Median", "", "", Round2(Median(variable))),
       Line("Standard Deviation", "", "", RoundedStd(variable)),
       Line("Maximum", "", "", Round2(Max(variable))),
       Line("Minimum", "", "", Round2(Min(variable))) >>

\* the lines print_statistic prints before the first percentile
StatHead(title, variable) ==
    << TitleLine(title),
       BannerLine,
       Line("Mean", "", "", Round2(Mean(variable))),
       Line("Median", "", "", Round2(Median(variable))),
       Line("Standard Deviation", "", "", RoundedStd(variable)),
       Line("Minimum", "", "", Round2(Min(variable))),
       Line("Maximum", "", "", Round2(Max(variable))) >>

\* the lines from the first percentile on
StatTail(variable) ==
    << Line("25th Percentile (Q1)", "", "", Round2(NpPercentile(variable, 25))),
       Line("75th Percentile (Q3)", "", "", Round2(NpPercentile(variable, 75))),
       Line("Skewness", "", "", RoundedSkew(variable)),
       Line("Kurtosis", "", "", Round2(Kurtosis(variable))),
       Line("Count of Missing Values", "", "", Int2Q(CountMissing(variable))),
       BannerLine,
       BlankLine >>

StatReport(title, variable) == StatHead(title, variable) \o StatTail(variable)

(***************************************************************************)
(* pyplot: the registry of surfaces.  A surface is a figure with its one   *)
(* axes; a pyplot state is [figs, cur, log, err].                          *)
(***************************************************************************)
Cmd(op, s, x, y, val, pts) == [op |-> op, s |-> s, x |-> x, y |-> y, val |-> val, pts |-> pts]

Step(fig, cmd) == [fig |-> fig, cmd |-> cmd]

\* plt.figure(): a new surface, which becomes the current one
PltFigure(st) ==
    LET k == Len(st.figs) + 1
    IN  [st EXCEPT !.figs = Append(@, <<>>), !.cur = k,
                   !.log = Append(@, Step(k, Cmd("figure", "", NaN, NaN, NaN, <<>>)))]

\* plt.gcf() / plt.gca(): the current surface, created when none exists
PltGca(st) == IF st.cur = 0 THEN PltFigure(st) ELSE st

\* one drawing command on surface ax
Draw(st, ax, cmd) ==
    [st EXCEPT !.figs[ax] = Append(@, cmd), !.log = Append(@, Step(ax, cmd))]

RECURSIVE DrawAll(_, _, _)
DrawAll(st, ax, cmds) ==
    IF cmds = <<>> THEN st ELSE DrawAll(Draw(st, ax, Head(cmds)), ax, Tail(cmds))

\* plt.show(): displays every open figure; draws on none
PltShow(st) == [st EXCEPT !.log = Append(@, Step(0, Cmd("show", "", NaN, NaN, NaN, <<>>)))]

\* plt.tight_layout(): the layout pass of the current figure
PltTightLayout(st) ==
    LET s0 == PltGca(st)
    IN  Draw(s0, s0.cur, Cmd("tight_layout", "", NaN, NaN, NaN, <<>>))

(***************************************************************************)
(* Frames: sequences of rows.  A bar frame has a categorical column and a  *)
(* numeric one; a scatter frame two numeric columns.                       *)
(***************************************************************************)
BarValues == {Int2Q(2), Frac(1, 3)}

BarRows == [cat : Categories, val : BarValues]

\* data_avg: of its columns only y is read
AvgRows == [val : BarValues]

NonEmptySeqs(S, k) == UNION {[1..m -> S] : m \in 1..k}

RECURSIVE QSum(_)
QSum(qs) == IF qs = <<>> THEN Int2Q(0) ELSE QAdd(Head(qs), QSum(Tail(qs)))

\* mean of a column of rationals
QMean(qs) ==
    IF qs = <<>> THEN NaN
    ELSE LET t == QSum(qs) IN Frac(t.n, t.d * Len(qs))

Column(data) == [i \in 1..Len(data) |-> data[i].val]

\* the categories of a frame, in order of first appearance
RECURSIVE CategoryOrder(_)
CategoryOrder(data) ==
    IF data = <<>> THEN <<>>
    ELSE LET init == CategoryOrder(SubSeq(data, 1, Len(data) - 1))
             c == data[Len(data)].cat
         IN  IF \E i \in 1..Len(init) : init[i] = c THEN init ELSE Append(init, c)

RowsOf(data, c) == SelectSeq(data, LAMBDA row : row.cat = c)

\* sns.barplot: one bar per category, its height the mean of the category's rows
\* (the bootstrapped error bars of a category with several rows are left out)
SnsBarplot(st, data, color, ax) ==
    LET cats == CategoryOrder(data)
        bars == [i \in 1..Len(cats) |->
                   Cmd("bar", color, Int2Q(i - 1), QMean(Column(RowsOf(data, cats[i]))), NaN, <<>>)]
    IN  DrawAll(st, ax, bars)

LabelOffset == Frac(1, 5)
AvgLabelX == Frac(19, 2)

\* the loop of ax.text calls: one label per row of data
ValueLabels(data) ==
    [i \in 1..Len(data) |->
       Cmd("text", "", Int2Q(i - 1), QAdd(data[i].val, LabelOffset), Round2(data[i].val), <<>>)]

\* faulty variant: the average rounded before it is drawn
AvgVariable_Rounded(data_avg) == Round2(QMean(Column(data_avg)))

AvgVariable(data_avg) == QMean(Column(data_avg))

beautybar(st, x, y, data, data_avg, color, ax) ==
    LET s0 == IF ax = NoAx THEN PltGca(st) ELSE st
        a == IF ax = NoAx THEN s0.cur ELSE ax
        s1 == SnsBarplot(s0, data, color, a)
        s2 == DrawAll(s1, a, ValueLabels(data))
        avg_variable == AvgVariable(data_avg)
        s3 == DrawAll(s2, a,
                << Cmd("axhline", "r--", NaN, avg_variable, NaN, <<>>),
                   Cmd("text", "Average: ", AvgLabelX, QAdd(avg_variable, LabelOffset),
                       Round2(avg_variable), <<>>),
                   Cmd("xlabel", x, NaN, NaN, NaN, <<>>),
                   Cmd("ylabel", y, NaN, NaN, NaN, <<>>),
                   Cmd("xticklabels", "right", NaN, NaN, Int2Q(45), <<>>),
                   Cmd("grid", "y--", NaN, NaN, NaN, <<>>) >>)
    IN  PltTightLayout(s3)

(***************************************************************************)
(* reg_scatter.                                                            *)
(***************************************************************************)
PointRows == [x : Values, y : Values]

Points(data) == [i \in 1..Len(data) |-> <<Int2Q(data[i].x), Int2Q(data[i].y)>>]

Xs(data) == [i \in 1..Len(data) |-> data[i].x]
Ys(data) == [i \in 1..Len(data) |-> data[i].y]

RECURSIVE Dot(_, _)
Dot(xs, ys) == IF xs = <<>> THEN 0 ELSE Head(xs) * Head(ys) + Dot(Tail(xs), Tail(ys))

\* the least-squares line over the x-range of the data, as its two end points
\* (for a constant x column the range is one point, at the mean of y)
FitLine(data) ==
    LET xs == Xs(data)
        ys == Ys(data)
        n == Len(data)
        sxx == n * Dot(xs, xs) - Sum(xs) * Sum(xs)
        sxy == n * Dot(xs, ys) - Sum(xs) * Sum(ys)
        lo == Sort(xs)[1]
        hi == Sort(xs)[n]
        \* yhat(x) = ybar + (sxy / sxx) * (x - xbar)
        At(x) == Frac(Sum(ys) * sxx + sxy * (n * x - Sum(xs)), n * sxx)
    IN  IF sxx = 0 THEN << <<Int2Q(lo), MeanOf(ys)>>, <<Int2Q(hi), MeanOf(ys)>> >>
        ELSE << <<Int2Q(lo), At(lo)>>, <<Int2Q(hi), At(hi)>> >>

\* sns.scatterplot: one collection of markers, one per row
SnsScatterplot(st, data, hue, ax) ==
    LET s0 == IF ax = NoAx THEN PltGca(st) ELSE st
        a == IF ax = NoAx THEN s0.cur ELSE ax
    IN  Draw(s0, a, Cmd("scatter", hue, NaN, NaN, NaN, Points(data)))

\* sns.regplot: markers when scatter, the fitted line, a confidence band when ci
SnsRegplot(st, data, ax, scatter, ci, color) ==
    LET s0 == IF ax = NoAx THEN PltGca(st) ELSE st
        a == IF ax = NoAx THEN s0.cur ELSE ax
        markers == IF scatter THEN <<Cmd("scatter", "", NaN, NaN, NaN, Points(data))>> ELSE <<>>
        band == IF ci THEN <<Cmd("band", color, NaN, NaN, NaN, FitLine(data))>> ELSE <<>>
    IN  DrawAll(s0, a, markers \o <<Cmd("line", color, NaN, NaN, NaN, FitLine(data))>> \o band)

\* faulty variant: regplot left to draw its own markers
reg_scatter_markers(st, data, hue, ax) ==
    SnsRegplot(SnsScatterplot(st, data, hue, ax), data, ax, TRUE, FALSE, "black")

reg_scatter(st, data, hue, ax) ==
    SnsRegplot(SnsScatterplot(st, data, hue, ax), data, ax, FALSE, FALSE, "black")

(***************************************************************************)
(* visualize_hyperparameter.                                               *)
(***************************************************************************)
ParamValues == {1, 2}

\* the scores of a sweep: a falling error, one score per value tried
ScoreSeqs == {[i \in 1..m |-> 10 - i] : m \in 0..MaxPoints}

Zip(xs, ys) == [i \in 1..Len(xs) |-> <<Int2Q(xs[i]), Int2Q(ys[i])>>]

\* the steps after plt.scatter returned
HyperDecorate(st, param_name) ==
    PltShow(DrawAll(st, st.cur,
        << Cmd("title", param_name, NaN, NaN, NaN, <<>>),
           Cmd("xlabel", param_name, NaN, NaN, NaN, <<>>),
           Cmd("ylabel", "Mean Squared Error", NaN, NaN, NaN, <<>>),
           Cmd("grid", "both", NaN, NaN, NaN, <<>>) >>))

\* faulty variant: the values sorted before they are plotted
visualize_hyperparameter_sorted(st, param_name, param_values, scores) ==
    LET s0 == PltFigure(st)
    IN  IF Len(param_values) # Len(scores) THEN [s0 EXCEPT !.err = "ValueError"]
        ELSE HyperDecorate(
                 Draw(s0, s0.cur, Cmd("scatter", "o", NaN, NaN, NaN, Zip(Sort(param_values), scores))),
                 param_name)

\* faulty variant: no plt.figure(), the plot lands on the current surface
visualize_hyperparameter_gca(st, param_name, param_values, scores) ==
    LET s0 == PltGca(st)
    IN  IF Len(param_values) # Len(scores) THEN [s0 EXCEPT !.err = "ValueError"]
        ELSE HyperDecorate(
                 Draw(s0, s0.cur, Cmd("scatter", "o", NaN, NaN, NaN, Zip(param_values, scores))),
                 param_name)

\* plt.scatter raises on sequences of different sizes: the figure stays, empty
visualize_hyperparameter(st, param_name, param_values, scores) ==
    LET s0 == PltFigure(st)
    IN  IF Len(param_values) # Len(scores) THEN [s0 EXCEPT !.err = "ValueError"]
        ELSE HyperDecorate(
                 Draw(s0, s0.cur, Cmd("scatter", "o", NaN, NaN, NaN, Zip(param_values, scores))),
                 param_name)

(***************************************************************************)
(* pearson_correlation.  A series is its name and its length: its entries  *)
(* are read by scipy's pearsonr alone, whose result is drawn from a set.   *)
(***************************************************************************)
Series == [name : Names, len : 0..MaxSeries]

Alpha == Frac(5, 100)

Outcome(err, r, p) == [err |-> err, r |-> r, p |-> p]

\* pearsonr(x, y): the outcomes it can have
Pearsonr(x, y) ==
    IF x.len # y.len \/ x.len < 2 THEN {Outcome("ValueError", NaN, NaN)}
    ELSE IF x.len = 2 THEN {Outcome("none", Int2Q(1), Int2Q(1)), Outcome("none", Int2Q(-1), Int2Q(1))}
    ELSE { Outcome("none", Int2Q(1), Int2Q(0)),
           Outcome("none", Frac(-998, 1000), Frac(49, 1000)),
           Outcome("none", Frac(997, 1000), Frac(50, 1000)),
           Outcome("none", Frac(996, 1000), Frac(51, 1000)),
           Outcome("none", Int2Q(0), Int2Q(1)),
           Outcome("none", NaN, NaN) }

\* faulty variant: p_value <= alpha
Verdict_LessEq(x, y, p_value) ==
    IF QLess(p_value, Alpha) \/ p_value = Alpha
    THEN Line("There is a statistically significant correlation between", x.name, y.name, Int2Q(0))
    ELSE Line("There is no statistically significant correlation between", x.name, y.name, Int2Q(0))

Verdict(x, y, p_value) ==
    IF QLess(p_value, Alpha)
    THEN Line("There is a statistically significant correlation between", x.name, y.name, Int2Q(0))
    ELSE Line("There is no statistically significant correlation between", x.name, y.name, Int2Q(0))

(***************************************************************************)
(* The operations.                                                         *)
(***************************************************************************)
\* pyplot's state as a call finds it
Pyplot == [figs |-> figs, cur |-> cur, log |-> <<>>, err |-> "none"]

\* a fresh interpreter: nothing printed, no surface open
Init ==
    /\ figs = <<>>
    /\ cur = 0
    /\ log = <<>>
    /\ console = <<>>
    /\ raised = "none"
    /\ call = [op |-> "none"]
    /\ nCalls = 0

\* a session in which the caller has opened surfaces, one of them current
InitAmbient ==
    /\ \E k \in 0..MaxFigs :
         /\ figs = [i \in 1..k |-> <<>>]
         /\ cur \in (IF k = 0 THEN {0} ELSE 1..k)
    /\ log = <<>>
    /\ console = <<>>
    /\ raised = "none"
    /\ call = [op |-> "none"]
    /\ nCalls = 0

\* print_statistic(title, variable): numpy.percentile of an empty series raises,
\* after the lines before it were printed
print_statistic(title, variable) ==
    /\ call' = [op |-> "print_statistic", title |-> title, variable |-> variable]
    /\ IF variable = <<>>
       THEN /\ console' = console \o StatHead(title, variable)
            /\ raised' = "IndexError"
       ELSE /\ console' = console \o StatReport(title, variable)
            /\ raised' = "none"
    /\ nCalls' = nCalls + 1
    /\ log' = <<>>
    /\ UNCHANGED <<figs, cur>>

PrintStatistic ==
    /\ nCalls < 1
    /\ \E title \in Names, variable \in SeqsUpTo(Entries, MaxLen) :
         print_statistic(title, variable)

\* faulty variant: the error of pearsonr caught and reported on the console
pearson_correlation_caught(x, y, res) ==
    /\ call' = [op |-> "pearson_correlation", x |-> x, y |-> y, res |-> res]
    /\ raised' = "none"
    /\ IF res.err # "none"
       THEN console' = Append(console, Line("Could not compute the correlation:", x.name, y.name, NaN))
       ELSE console' = console \o
                << Line("Pearson Correlation Coefficient:", "", "", res.r),
                   Line("P-value:", "", "", res.p),
                   Verdict(x, y, res.p) >>
    /\ nCalls' = nCalls + 1
    /\ log' = <<>>
    /\ UNCHANGED <<figs, cur>>

pearson_correlation(x, y, res) ==
    /\ call' = [op |-> "pearson_correlation", x |-> x, y |-> y, res |-> res]
    /\ raised' = res.err
    /\ IF res.err # "none"
       THEN console' = console
       ELSE console' = console \o
                << Line("Pearson Correlation Coefficient:", "", "", res.r),
                   Line("P-value:", "", "", res.p),
                   Verdict(x, y, res.p) >>
    /\ nCalls' = nCalls + 1
    /\ log' = <<>>
    /\ UNCHANGED <<figs, cur>>

PearsonCorrelation ==
    /\ nCalls < MaxCalls
    /\ \E x \in Series, y \in Series :
         \E res \in Pearsonr(x, y) : pearson_correlation(x, y, res)

Plotted(st) ==
    /\ figs' = st.figs
    /\ cur' = st.cur
    /\ log' = st.log
    /\ raised' = st.err
    /\ nCalls' = nCalls + 1
    /\ UNCHANGED console

Targets == {NoAx} \cup (1..Len(figs))

Beautybar ==
    /\ nCalls < 1
    /\ \E data \in NonEmptySeqs(BarRows, MaxRows), data_avg \in NonEmptySeqs(AvgRows, MaxRows),
          ax \in Targets :
         /\ call' = [op |-> "beautybar", data |-> data, data_avg |-> data_avg, ax |-> ax]
         /\ Plotted(beautybar(Pyplot, "cat", "val", data, data_avg, "skyblue", ax))

RegScatter ==
    /\ nCalls < 1
    /\ \E data \in NonEmptySeqs(PointRows, MaxRows), hue \in {"", "g"}, ax \in Targets :
         /\ call' = [op |-> "reg_scatter", data |-> data, hue |-> hue, ax |-> ax]
         /\ Plotted(reg_scatter(Pyplot, data, hue, ax))

VisualizeHyperparameter ==
    /\ nCalls < MaxCalls
    /\ \E param_name \in {"alpha"}, param_values \in SeqsUpTo(ParamValues, MaxPoints),
          scores \in ScoreSeqs :
         /\ call' = [op |-> "visualize_hyperparameter", param_name |-> param_name,
                     param_values |-> param_values, scores |-> scores]
         /\ Plotted(visualize_hyperparameter(Pyplot, param_name, param_values, scores))

SpecStat == Init /\ [][PrintStatistic]_vars
SpecCorr == Init /\ [][PearsonCorrelation]_vars
SpecBar == InitAmbient /\ [][Beautybar]_vars
SpecReg == InitAmbient /\ [][RegScatter]_vars
SpecDraw == InitAmbient /\ [][Beautybar \/ RegScatter]_vars
SpecHyper == InitAmbient /\ [][VisualizeHyperparameter]_vars

(***************************************************************************)
(* Properties.                                                             *)
(***************************************************************************)
\* the steps of the last call with a given command
StepsWith(op) == SelectSeq(log, LAMBDA st : st.cmd.op = op)

\* the per-row value labels and the label of the average, among the text steps
ValueLabelSteps == SelectSeq(log, LAMBDA st : st.cmd.op = "text" /\ st.cmd.s = "")
AvgLabelSteps == SelectSeq(log, LAMBDA st : st.cmd.op = "text" /\ st.cmd.s = "Average: ")

HasMissing(variable) == \E i \in 1..Len(variable) : IsNaN(variable[i])
HasPresent(variable) == \E i \in 1..Len(variable) : ~IsNaN(variable[i])

\* the value print_statistic reported under a label
Reported(label) ==
    LET i == CHOOSE j \in 1..Len(console) : console[j].label = label
    IN  console[i].val

\* C1: beautybar draws one value label per bar: as many labels as distinct
\* categories, the label at category index i showing the height of bar i (the mean
\* of y over the rows of category i) rounded to 2 decimals.
C1_OneLabelPerBar ==
    call.op = "beautybar" =>
        LET cats == CategoryOrder(call.data)
            bars == StepsWith("bar")
        IN  /\ Len(bars) = Len(cats)
            /\ Len(ValueLabelSteps) = Len(cats)
            /\ \A i \in 1..Len(ValueLabelSteps) :
                 /\ ValueLabelSteps[i].cmd.x = Int2Q(i - 1)
                 /\ i <= Len(bars) => ValueLabelSteps[i].cmd.val = Round2(bars[i].cmd.y)

\* C2: in print_statistic every reported aggregate of a series with missing
\* entries equals the aggregate of the series with the missing entries removed;
\* the two percentiles are the linear-interpolation percentiles of the entries
\* that are present.
C2_MissingExcluded ==
    (call.op = "print_statistic" /\ raised = "none"
        /\ HasMissing(call.variable) /\ HasPresent(call.variable)) =>
        LET xs == DropNa(call.variable)
        IN  /\ Reported("Mean") = Round2(MeanOf(xs))
            /\ Reported("Median") = Round2(MedianOf(xs))
            /\ Reported("Standard Deviation") = RoundedStdOf(xs)
            /\ Reported("Minimum") = Round2(MinOf(xs))
            /\ Reported("Maximum") = Round2(MaxOf(xs))
            /\ Reported("25th Percentile (Q1)") = Round2(PercentileOf(xs, 25))
            /\ Reported("75th Percentile (Q3)") = Round2(PercentileOf(xs, 75))
            /\ Reported("Skewness") = RoundedSkewOf(xs)
            /\ Reported("Kurtosis") = Round2(KurtosisOf(xs))

\* C3: beautybar and reg_scatter called with an explicit target apply every
\* drawing effect of the call (the layout pass included) to that target, and
\* change no other surface, the current one included.
C3_OnlyTheTarget ==
    (call.op \in {"beautybar", "reg_scatter"} /\ call.ax # NoAx) =>
        /\ \A i \in 1..Len(log) : log[i].fig = call.ax
        /\ \A j \in 1..Len(figs) : j # call.ax => figs[j] = <<>>

\* C4: beautybar draws exactly one horizontal reference line, at the mean of the
\* y column of data_avg whatever data holds, and the average label shows that
\* mean rounded to 2 decimals.
C4_ReferenceLine ==
    call.op = "beautybar" =>
        LET col == Column(call.data_avg)
            total == QSum(col)
            lines == StepsWith("axhline")
        IN  /\ Len(lines) = 1
            /\ ~IsNaN(lines[1].cmd.y)
            /\ lines[1].cmd.y.n * total.d * Len(col) = total.n * lines[1].cmd.y.d
            /\ Len(AvgLabelSteps) = 1
            /\ AvgLabelSteps[1].cmd.val = Round2(Frac(total.n, total.d * Len(col)))

C4_Witness ==
    /\ call.op = "beautybar"
    /\ Len(StepsWith("axhline")) = 1
    /\ QMean(Column(call.data)) # QMean(Column(call.data_avg))
    /\ Round2(QMean(Column(call.data_avg))) # QMean(Column(call.data_avg))
    /\ Len(call.data_avg) > 1

\* the lines a step printed
Printed == SubSeq(console', Len(console) + 1, Len(console'))

IsCall(op) == nCalls' = nCalls + 1 /\ call'.op = op

\* C5: a successful pearson_correlation prints the coefficient line, the p-value
\* line and one verdict line, in this order; the verdict is the "statistically
\* significant" one exactly when p-value < 0.05, so not at p-value = 0.05; it names
\* x, then y.
C5_Verdict ==
    [][(IsCall("pearson_correlation") /\ raised' = "none") =>
          LET p == call'.res.p
              significant == ~IsNaN(p) /\ 100 * p.n < 5 * p.d
          IN  /\ Len(Printed) = 3
              /\ Printed[1].label = "Pearson Correlation Coefficient:"
              /\ Printed[1].val = call'.res.r
              /\ Printed[2].label = "P-value:"
              /\ Printed[2].val = p
              /\ Printed[3].label =
                   (IF significant
                    THEN "There is a statistically significant correlation between"
                    ELSE "There is no statistically significant correlation between")
              /\ Printed[3].a = call'.x.name
              /\ Printed[3].b = call'.y.name]_vars

C5_Witness ==
    /\ call.op = "pearson_correlation"
    /\ raised = "none"
    /\ call.res.p = Frac(5, 100)
    /\ call.x.name # call.y.name
    /\ console[Len(console)].label = "There is no statistically significant correlation between"

\* C6: for equal-length param_values and scores of length n,
\* visualize_hyperparameter plots n points, the i-th at (param_values[i],
\* scores[i]): no sorting, deduplication or aggregation.
C6_PointsAsGiven ==
    (call.op = "visualize_hyperparameter" /\ Len(call.param_values) = Len(call.scores)) =>
        LET sc == StepsWith("scatter")
        IN  /\ Len(sc) = 1
            /\ Len(sc[1].cmd.pts) = Len(call.param_values)
            /\ \A i \in 1..Len(call.param_values) :
                 sc[1].cmd.pts[i] = <<Int2Q(call.param_values[i]), Int2Q(call.scores[i])>>

C6_Witness ==
    /\ call.op = "visualize_hyperparameter"
    /\ raised = "none"
    /\ Len(call.param_values) = 2
    /\ call.param_values[1] > call.param_values[2]
    /\ Len(StepsWith("scatter")) = 1

ReportLabels ==
    << "Statistics for", "+", "Mean", "Median", "Standard Deviation", "Minimum", "Maximum",
       "25th Percentile (Q1)", "75th Percentile (Q3)", "Skewness", "Kurtosis",
       "Count of Missing Values", "+" >>

\* the report lines of a step, blank lines left out, are the title, the banner,
\* the ten statistics and the banner again, the two banners of one width
ReportInOrder ==
    LET out == SelectSeq(Printed, LAMBDA l : l.label # "")
    IN  /\ Len(out) = Len(ReportLabels)
        /\ \A i \in 1..Len(out) : out[i].label = ReportLabels[i]
        /\ out[1].a = call'.title
        /\ out[2].val = out[Len(out)].val

\* the title is printed inside the banner: between its two lines, or on one of them
TitleInBanner ==
    \E i \in 1..Len(Printed) :
        /\ Printed[i].a = call'.title
        /\ \/ Printed[i].label = "+"
           \/ /\ \E j \in 1..(i - 1) : Printed[j].label = "+"
              /\ \E k \in (i + 1)..Len(Printed) : Printed[k].label = "+"

\* C7 as stated: a successful print_statistic prints the title, the opening banner,
\* the ten statistics in their order and the closing banner of the same width, and
\* the title is contained in the banner that frames the statistics.
C7_TitleInBanner ==
    [][(IsCall("print_statistic") /\ raised' = "none") => (ReportInOrder /\ TitleInBanner)]_vars

\* C7, amended: a successful print_statistic prints the title, the opening banner,
\* the ten statistics in their order and the closing banner of the same width; the
\* title line comes before the opening banner, outside the two banner lines, which
\* hold nothing but the '+' signs; a blank line ends the report.
C7_ReportOrder ==
    [][(IsCall("print_statistic") /\ raised' = "none") =>
          /\ ReportInOrder
          /\ ~TitleInBanner
          /\ Printed[1].label = "Statistics for"
          /\ Len(Printed) = Len(ReportLabels) + 1
          /\ Printed[Len(Printed)] = BlankLine]_vars

C7_Witness ==
    /\ call.op = "print_statistic"
    /\ raised = "none"
    /\ Len(console) = Len(ReportLabels) + 1
    /\ HasMissing(call.variable)
    /\ ~IsNaN(Reported("Kurtosis"))

\* the number of markers drawn by a sequence of steps
RECURSIVE Markers(_)
Markers(steps) ==
    IF steps = <<>> THEN 0
    ELSE (IF Head(steps).cmd.op = "scatter" THEN Len(Head(steps).cmd.pts) ELSE 0)
         + Markers(Tail(steps))

\* C8: a call of reg_scatter adds one scatter layer, then one regression line, and
\* nothing else: no second set of markers and no confidence band, so each data
\* point is drawn once; with no target both layers land on the surface that is
\* current when the call is made.
C8_ScatterThenLine ==
    [][IsCall("reg_scatter") =>
          LET d == SelectSeq(log', LAMBDA st : st.cmd.op # "figure")
              ambient == IF cur = 0 THEN Len(figs) + 1 ELSE cur
          IN  /\ Len(d) = 2
              /\ d[1].cmd.op = "scatter"
              /\ d[2].cmd.op = "line"
              /\ Markers(d) = Len(call'.data)
              /\ d[1].fig = d[2].fig
              /\ call'.ax = NoAx => d[1].fig = ambient]_vars

C8_Witness ==
    /\ call.op = "reg_scatter"
    /\ call.ax = NoAx
    /\ Len(figs) = 2
    /\ cur = 1
    /\ Len(figs[1]) = 2
    /\ figs[2] = <<>>
    /\ Len(call.data) = 2

\* C9: when pearsonr fails (x and y of different length, or fewer than 2 paired
\* points), pearson_correlation ends with that error, not caught or replaced, and
\* has printed nothing: the console is as it was.
C9_FailsSilently ==
    [][(IsCall("pearson_correlation")
          /\ (call'.x.len # call'.y.len \/ call'.x.len < 2)) =>
          /\ raised' = "ValueError"
          /\ raised' = call'.res.err
          /\ console' = console]_vars

C9_Witness ==
    /\ call.op = "pearson_correlation"
    /\ raised = "ValueError"
    /\ call.x.len # call.y.len
    /\ Len(console) = 3

HyperSteps == <<"figure", "scatter", "title", "xlabel", "ylabel", "grid", "show">>

\* C10: each call of visualize_hyperparameter creates a new figure and draws on it
\* alone: the surfaces that existed before the call are as they were; a call that
\* completes makes its steps in the order figure, scatter, title, x-label, y-label,
\* grid, display, the display once and last (a call that fails in the scatter has
\* made the first step only).
C10_NewFigure ==
    [][IsCall("visualize_hyperparameter") =>
          /\ Len(figs') = Len(figs) + 1
          /\ \A i \in 1..Len(figs) : figs'[i] = figs[i]
          /\ \A i \in 1..Len(log') : log'[i].fig \in {0, Len(figs')}
          /\ \A i \in 1..Len(log') : log'[i].fig = 0 <=> log'[i].cmd.op = "show"
          /\ Len(log') = (IF raised' = "none" THEN Len(HyperSteps) ELSE 1)
          /\ \A i \in 1..Len(log') : log'[i].cmd.op = HyperSteps[i]]_vars

C10_Witness ==
    /\ call.op = "visualize_hyperparameter"
    /\ raised = "none"
    /\ nCalls = 2
    /\ Len(figs) = 4
    /\ figs[1] = <<>>
    /\ figs[3] # <<>>
    /\ Len(log) = Len(HyperSteps)

====
